---- MODULE Spec2Model ----
(***************************************************************************)
(* Model of open_r1/utils/action_annotation.py (annotate_action and the    *)
(* parsers and renderers it calls), of open_r1/utils/tracking.py           *)
(* (TrainingTracker) and of the retry loop of the two evaluators of        *)
(* open_r1/utils/reward_model_prompts.py.  Each has its own specification: *)
(* Spec and SpecRepeat, SpecTracker, SpecEvaluators.                       *)
(*                                                                         *)
(* Strings are sequences of one-character strings, so that startswith,     *)
(* split and the regular expressions are computed character by character. *)
(* Python floats are exact rationals [n, d] (d > 0, lowest terms); the     *)
(* decimals of the catalogue are dyadic (0.5, 0.25, 0.125, ...), for which *)
(* float() and the products with the image size are exact in binary too.   *)
(* float('inf') is the record Inf.  The image content is the sequence of   *)
(* drawing primitives applied to the image so far.                         *)
(***************************************************************************)
EXTENDS Integers, Sequences, FiniteSets, TLC

(***************************************************************************)
(* Bounds                                                                  *)
(***************************************************************************)
\* largest number of lines (newline-separated) of an action log
MaxLines == 2

(***************************************************************************)
(* Characters                                                              *)
(***************************************************************************)
Digits == {"0", "1", "2", "3", "4", "5", "6", "7", "8", "9"}

Letters == {"a", "b", "c", "d", "e", "f", "g", "h", "i", "j", "k", "l", "m",
            "n", "o", "p", "q", "r", "s", "t", "u", "v", "w", "x", "y", "z",
            "A", "B", "C", "D", "E", "F", "G", "H", "I", "J", "K", "L", "M",
            "N", "O", "P", "Q", "R", "S", "T", "U", "V", "W", "X", "Y", "Z"}

\* \w of the re module
WordChars == Letters \cup Digits \cup {"_"}

\* \s of the re module (the characters that occur in the catalogue)
Spaces == {" ", "\t", "\n"}

DigitVal(c) ==
    CASE c = "0" -> 0 [] c = "1" -> 1 [] c = "2" -> 2 [] c = "3" -> 3
      [] c = "4" -> 4 [] c = "5" -> 5 [] c = "6" -> 6 [] c = "7" -> 7
      [] c = "8" -> 8 [] c = "9" -> 9

(***************************************************************************)
(* Rationals standing for Python numbers                                   *)
(***************************************************************************)
Abs(i) == IF i < 0 THEN -i ELSE i

RECURSIVE Gcd(_, _)
Gcd(a, b) == IF b = 0 THEN a ELSE Gcd(b, a % b)

\* the rational n/d, d # 0, in lowest terms with a positive denominator
Rat(n, d) ==
    LET g == Gcd(Abs(n), Abs(d))
        s == IF d < 0 THEN -1 ELSE 1
    IN  [n |-> s * (n \div g), d |-> s * (d \div g)]

Int2Rat(i) == [n |-> i, d |-> 1]

\* float('inf')
Inf == [n |-> 1, d |-> 0]

RMul(a, b) == Rat(a.n * b.n, a.d * b.d)
RAdd(a, b) == Rat(a.n * b.d + b.n * a.d, a.d * b.d)
RNeg(a) == [n |-> -a.n, d |-> a.d]
\* a / b for b # 0, both finite
RDiv(a, b) == Rat(a.n * b.d, a.d * b.n)
\* a < b; Inf is larger than every finite number
RLess(a, b) ==
    IF a.d = 0 THEN FALSE
    ELSE IF b.d = 0 THEN TRUE
    ELSE a.n * b.d < b.n * a.d
RLeq(a, b) == a = b \/ RLess(a, b)
RMin(a, b) == IF RLess(b, a) THEN b ELSE a

\* int(v): truncation toward zero
PyInt(v) == IF v.n >= 0 THEN v.n \div v.d ELSE -((-v.n) \div v.d)

\* round(v) and the rounding of the .2f format: to the nearest integer, ties
\* to the even one
PyRound(v) ==
    LET q == v.n \div v.d
        r == v.n - q * v.d
    IN  IF 2 * r < v.d THEN q
        ELSE IF 2 * r > v.d THEN q + 1
        ELSE IF q % 2 = 0 THEN q ELSE q + 1

RECURSIVE Pow10(_)
Pow10(k) == IF k = 0 THEN 1 ELSE 10 * Pow10(k - 1)

RECURSIVE DigitsVal(_)
\* the value of a string of decimal digits ("" is 0)
DigitsVal(s) ==
    IF Len(s) = 0 THEN 0
    ELSE 10 * DigitsVal(SubSeq(s, 1, Len(s) - 1)) + DigitVal(s[Len(s)])

(***************************************************************************)
(* Strings: startswith, split, the scanning helpers of the regexes         *)
(***************************************************************************)
\* s.startswith(p)
StartsWith(s, p) == Len(s) >= Len(p) /\ SubSeq(s, 1, Len(p)) = p

\* the literal lit occurs in s at position i
LitAt(s, i, lit) ==
    i + Len(lit) - 1 <= Len(s) /\ SubSeq(s, i, i + Len(lit) - 1) = lit

RECURSIVE SkipIn(_, _, _)
\* the first position >= i of s whose character is not in set (Len(s)+1 if
\* none): where a greedy \s*, \d* or \w* that starts at i stops
SkipIn(s, i, set) ==
    IF i <= Len(s) /\ s[i] \in set THEN SkipIn(s, i + 1, set) ELSE i

\* the position of the first "\n" of s at or after position i, 0 if none
NextSep(s, i) ==
    IF \E k \in i..Len(s) : s[k] = "\n"
    THEN CHOOSE k \in i..Len(s) :
             s[k] = "\n" /\ \A m \in i..(k - 1) : s[m] # "\n"
    ELSE 0

RECURSIVE SplitFrom(_, _)
\* the pieces of s from position start on, cut at every "\n"
SplitFrom(s, start) ==
    LET k == NextSep(s, start)
    IN  IF k = 0 THEN << SubSeq(s, start, Len(s)) >>
        ELSE << SubSeq(s, start, k - 1) >> \o SplitFrom(s, k + 1)

\* actions.split("\n"): always at least one piece, "" gives <<"">>
SplitLines(s) == SplitFrom(s, 1)

RECURSIVE JoinLines(_)
\* "\n".join(ls), with which the action logs are built from their lines
JoinLines(ls) ==
    IF Len(ls) = 0 THEN << >>
    ELSE IF Len(ls) = 1 THEN ls[1]
    ELSE ls[1] \o << "\n" >> \o JoinLines(Tail(ls))

\* float(s) for s matching [-+]?\d*\.?\d+
PyFloat(s) ==
    LET signed == Len(s) > 0 /\ s[1] \in {"-", "+"}
        body == IF signed THEN Tail(s) ELSE s
        dot == SkipIn(body, 1, Digits)
        ip == SubSeq(body, 1, dot - 1)
        fp == SubSeq(body, dot + 1, Len(body))
        mag == Rat(DigitsVal(ip) * Pow10(Len(fp)) + DigitsVal(fp), Pow10(Len(fp)))
    IN  IF signed /\ s[1] = "-" THEN RNeg(mag) ELSE mag

(***************************************************************************)
(* extract_x_y                                                             *)
(***************************************************************************)
\* Python's None
None == << "None" >>

\* [-+]?\d*\.?\d+ at position i, followed by something that is no digit:
\* the position after the number, or 0 when the pattern does not match
NumberEnd(s, i) ==
    LET j == IF i <= Len(s) /\ s[i] \in {"-", "+"} THEN i + 1 ELSE i
        k == SkipIn(s, j, Digits)
        m == IF k <= Len(s) /\ s[k] = "." THEN SkipIn(s, k + 1, Digits) ELSE k
    IN  IF k <= Len(s) /\ s[k] = "." /\ m > k + 1 THEN m
        ELSE IF k > j THEN k
        ELSE 0

\* \s* lit at position i: the position after lit, or 0
SpLit(s, i, lit) ==
    LET j == SkipIn(s, i, Spaces)
    IN  IF i > 0 /\ LitAt(s, j, lit) THEN j + Len(lit) ELSE 0

\* \s* number at position i: <<start, end>> of the number, or <<0, 0>>
SpNumber(s, i) ==
    LET j == SkipIn(s, i, Spaces)
    IN  IF i > 0 /\ NumberEnd(s, j) > 0 THEN << j, NumberEnd(s, j) >> ELSE << 0, 0 >>

\* the pattern of extract_x_y matched at position i of s: the two groups,
\* or << >> when it does not match there
XYMatchAt(s, i) ==
    LET p0 == IF LitAt(s, i, << "p","y","a","u","t","o","g","u","i","." >>)
              THEN i + 10 ELSE 0
        p1 == IF p0 > 0 /\ LitAt(s, p0, << "c","l","i","c","k" >>) THEN p0 + 5
              ELSE IF p0 > 0 /\ LitAt(s, p0, << "m","o","v","e","T","o" >>) THEN p0 + 6
              ELSE 0
        p2 == SpLit(s, p1, << "(" >>)
        p3 == SpLit(s, p2, << "x" >>)
        p4 == SpLit(s, p3, << "=" >>)
        nx == SpNumber(s, p4)
        p5 == SpLit(s, nx[2], << "," >>)
        p6 == SpLit(s, p5, << "y" >>)
        p7 == SpLit(s, p6, << "=" >>)
        ny == SpNumber(s, p7)
        p8 == SpLit(s, ny[2], << ")" >>)
    IN  IF p8 > 0
        THEN << SubSeq(s, nx[1], nx[2] - 1), SubSeq(s, ny[1], ny[2] - 1) >>
        ELSE << >>

RECURSIVE XYSearch(_, _)
\* re.search: the leftmost position at which the pattern matches
XYSearch(s, i) ==
    IF i > Len(s) THEN << >>
    ELSE IF XYMatchAt(s, i) # << >> THEN XYMatchAt(s, i)
    ELSE XYSearch(s, i + 1)

\* extract_x_y with a default of "0" for the groups of a line that does not
\* match
extract_x_y_zero(action) ==
    LET match == XYSearch(action, 1)
    IN  IF match = << >> THEN << << "0" >>, << "0" >> >> ELSE match

\* extract_x_y(action): the two matched strings, or (None, None)
extract_x_y(action) ==
    LET match == XYSearch(action, 1)
    IN  IF match = << >> THEN << None, None >> ELSE match

(***************************************************************************)
(* convert_scroll                                                          *)
(***************************************************************************)
\* the number pattern with an optional fraction, -?\d+(\.\d+)?, which
\* reads integer literals too
DecimalEnd_OptionalFraction(s, i) ==
    LET j == IF i <= Len(s) /\ s[i] = "-" THEN i + 1 ELSE i
        k == SkipIn(s, j, Digits)
        m == SkipIn(s, k + 1, Digits)
    IN  IF k > j /\ k <= Len(s) /\ s[k] = "." /\ m > k + 1 THEN m
        ELSE IF k > j THEN k
        ELSE 0

\* -?\d+\.\d+ at position i: the position after the number, or 0
DecimalEnd(s, i) ==
    LET j == IF i <= Len(s) /\ s[i] = "-" THEN i + 1 ELSE i
        k == SkipIn(s, j, Digits)
        m == SkipIn(s, k + 1, Digits)
    IN  IF k > j /\ k <= Len(s) /\ s[k] = "." /\ m > k + 1 THEN m ELSE 0

\* (\w+)\s*=\s*(-?\d+\.\d+) at position i: the two groups and the position
\* after the match, or << >>
KVMatchAt(s, i) ==
    LET e == SkipIn(s, i, WordChars)
        p == SpLit(s, e, << "=" >>)
        v == SkipIn(s, p, Spaces)
    IN  IF e > i /\ p > 0 /\ DecimalEnd(s, v) > 0
        THEN << SubSeq(s, i, e - 1), SubSeq(s, v, DecimalEnd(s, v) - 1), DecimalEnd(s, v) >>
        ELSE << >>

RECURSIVE KVFindAll(_, _)
\* re.findall(pattern, action): the non-overlapping matches, left to right
KVFindAll(s, i) ==
    IF i > Len(s) THEN << >>
    ELSE IF KVMatchAt(s, i) # << >>
         THEN << << KVMatchAt(s, i)[1], KVMatchAt(s, i)[2] >> >>
              \o KVFindAll(s, KVMatchAt(s, i)[3])
         ELSE KVFindAll(s, i + 1)

RECURSIVE DecimalFindAll(_, _)
\* re.findall(r"-?\d+\.\d+", action)
DecimalFindAll(s, i) ==
    IF i > Len(s) THEN << >>
    ELSE IF DecimalEnd(s, i) > 0
         THEN << SubSeq(s, i, DecimalEnd(s, i) - 1) >> \o DecimalFindAll(s, DecimalEnd(s, i))
         ELSE DecimalFindAll(s, i + 1)

RECURSIVE DictGet(_, _, _)
\* dict(pairs).get(key, default): the last pair with that key wins
DictGet(pairs, key, default) ==
    IF Len(pairs) = 0 THEN default
    ELSE IF pairs[Len(pairs)][1] = key THEN pairs[Len(pairs)][2]
    ELSE DictGet(SubSeq(pairs, 1, Len(pairs) - 1), key, default)

\* convert_scroll with y = vertical * height, the sign not inverted
convert_scroll_uninverted(action, width, height) ==
    LET kv_pairs == KVFindAll(action, 1)
        numbers == DecimalFindAll(action, 1)
        page == DictGet(kv_pairs, << "p","a","g","e" >>, None)
        horizontal_str ==
            DictGet(kv_pairs, << "h","o","r","i","z","o","n","t","a","l" >>,
                    DictGet(kv_pairs, << "h" >>, None))
    IN  IF kv_pairs # << >>
        THEN LET vertical == IF page = None THEN Int2Rat(0) ELSE PyFloat(page)
             IN  << IF horizontal_str # None
                    THEN RMul(PyFloat(horizontal_str), Int2Rat(width))
                    ELSE Int2Rat(0),
                    RMul(vertical, Int2Rat(height)) >>
        ELSE IF numbers = << >> THEN << Int2Rat(0), Int2Rat(0) >>
        ELSE << IF Len(numbers) > 1
                THEN RMul(PyFloat(numbers[2]), Int2Rat(width))
                ELSE Int2Rat(0),
                RMul(PyFloat(numbers[1]), Int2Rat(height)) >>

\* convert_scroll(action, screenshot): the pixel offsets (x, y)
convert_scroll(action, width, height) ==
    LET kv_pairs == KVFindAll(action, 1)
        numbers == DecimalFindAll(action, 1)
        page == DictGet(kv_pairs, << "p","a","g","e" >>, None)
        horizontal_str ==
            DictGet(kv_pairs, << "h","o","r","i","z","o","n","t","a","l" >>,
                    DictGet(kv_pairs, << "h" >>, None))
    IN  IF kv_pairs # << >>
        THEN LET vertical == IF page = None THEN Int2Rat(0) ELSE PyFloat(page)
             IN  << IF horizontal_str # None
                    THEN RMul(PyFloat(horizontal_str), Int2Rat(width))
                    ELSE Int2Rat(0),
                    RMul(RNeg(vertical), Int2Rat(height)) >>
        ELSE IF numbers = << >> THEN << Int2Rat(0), Int2Rat(0) >>
        ELSE << IF Len(numbers) > 1
                THEN RMul(PyFloat(numbers[2]), Int2Rat(width))
                ELSE Int2Rat(0),
                RMul(RNeg(PyFloat(numbers[1])), Int2Rat(height)) >>

(***************************************************************************)
(* The renderers.  An image is [width, height, ops]: ops is the sequence   *)
(* of drawing primitives applied so far, which stands for its pixels.      *)
(* A renderer yields [ops, success]: the primitives it applied before it   *)
(* returned (its try block swallows every exception) and its flag.         *)
(***************************************************************************)
Ellipse(x, y, r, outline, fill, width) ==
    [op |-> "ellipse", box |-> << x - r, y - r, x + r, y + r >>,
     outline |-> outline, fill |-> fill, width |-> width]

Text(at, text) ==
    [op |-> "text", at |-> at, text |-> text, fill |-> "red",
     stroke_fill |-> "black", stroke_width |-> 2]

\* the label of annotate_scroll: the text shows hundredths / 100
ScrollText(at, hundredths) ==
    [op |-> "text", at |-> at, text |-> "Scroll page", page |-> hundredths,
     fill |-> "red", stroke_fill |-> "black", stroke_width |-> 2]

Line(from, to, fill, width) ==
    [op |-> "line", seg |-> << from, to >>, fill |-> fill, width |-> width]

\* a segment of the arrow head: from the tip to a point computed with atan2,
\* cos and sin, which is named (side) and not computed
HeadLine(tip, side, fill, width) ==
    [op |-> "line", tip |-> tip, head |-> side, fill |-> fill, width |-> width]

\* the four rings of a click or move marker centered at (x, y)
\* the rings with the radius taken from the larger dimension
MarkerRings_MaxDimension(x, y, width, height) ==
    LET radius == (IF width < height THEN height ELSE width) \div 15
        outer_halo_radius == radius + 2
    IN  << Ellipse(x, y, outer_halo_radius, "black", "none", 4),
           Ellipse(x, y, radius, "red", "none", 2),
           Ellipse(x, y, 4, "black", "none", 4),
           Ellipse(x, y, 2, "none", "red", 1) >>

MarkerRings(x, y, width, height) ==
    LET radius == (IF width < height THEN width ELSE height) \div 15
        outer_halo_radius == radius + 2
    IN  << Ellipse(x, y, outer_halo_radius, "black", "none", 4),
           Ellipse(x, y, radius, "red", "none", 2),
           Ellipse(x, y, 4, "black", "none", 4),
           Ellipse(x, y, 2, "none", "red", 1) >>

\* the if/elif chain that places the label of annotate_click: the anchor of
\* the text, or << >> when no branch is taken
ClickLabelAnchor(x, y, width, height) ==
    IF x + 10 < width /\ y + 10 < height THEN << x + 10, y + 10 >>
    ELSE IF x - 10 > 0 /\ y - 10 > 0 THEN << x - 10, y - 10 >>
    ELSE IF x + 10 < width /\ y - 10 > 0 THEN << x + 10, y - 10 >>
    ELSE IF x - 10 > 0 /\ y + 10 < height THEN << x - 10, y + 10 >>
    ELSE << >>

\* the same chain in annotate_move
MoveLabelAnchor(x, y, width, height) ==
    IF x + 10 < width /\ y + 10 < height THEN << x + 10, y + 10 >>
    ELSE IF x - 10 > 0 /\ y - 10 > 0 THEN << x - 10, y - 10 >>
    ELSE IF x + 10 < width /\ y - 10 > 0 THEN << x + 10, y - 10 >>
    ELSE IF x - 10 > 0 /\ y + 10 < height THEN << x - 10, y + 10 >>
    ELSE << >>

\* denormalizing with round() in place of int()
Denormalize_Round(v, dimension) == PyRound(RMul(PyFloat(v), Int2Rat(dimension)))

\* x = int(float(x) * image.width), and likewise for y with the height
Denormalize(v, dimension) == PyInt(RMul(PyFloat(v), Int2Rat(dimension)))

\* annotate_click(x, y, image): float(None) raises TypeError before anything
\* is drawn, and the except clause turns it into success = False
annotate_click(x, y, image) ==
    IF x = None \/ y = None THEN [ops |-> << >>, success |-> FALSE]
    ELSE LET px == Denormalize(x, image.width)
             py == Denormalize(y, image.height)
             anchor == ClickLabelAnchor(px, py, image.width, image.height)
         IN  [ops |-> MarkerRings(px, py, image.width, image.height)
                      \o (IF anchor = << >> THEN << >> ELSE << Text(anchor, "Click") >>),
              success |-> TRUE]

\* annotate_move(x, y, image)
annotate_move(x, y, image) ==
    IF x = None \/ y = None THEN [ops |-> << >>, success |-> FALSE]
    ELSE LET px == Denormalize(x, image.width)
             py == Denormalize(y, image.height)
             anchor == MoveLabelAnchor(px, py, image.width, image.height)
         IN  [ops |-> MarkerRings(px, py, image.width, image.height)
                      \o (IF anchor = << >> THEN << >> ELSE << Text(anchor, "MoveTo") >>),
              success |-> TRUE]

\* the margin of annotate_scroll
margin == 15

\* compute_scaling_factor that bounds the arrow by the image edge itself,
\* the margin left out
compute_scaling_factor_no_margin(cx, cy, dx, dy, width, height, mrg) ==
    LET fx == IF dx.n > 0 THEN RDiv(Int2Rat(width - cx), dx)
              ELSE IF dx.n < 0 THEN RDiv(Int2Rat(cx), RNeg(dx))
              ELSE Inf
        fy == IF dy.n > 0 THEN RDiv(Int2Rat(height - cy), dy)
              ELSE IF dy.n < 0 THEN RDiv(Int2Rat(cy), RNeg(dy))
              ELSE Inf
    IN  RMin(Int2Rat(1), RMin(fx, fy))

\* compute_scaling_factor(cx, cy, dx, dy, width, height, margin)
compute_scaling_factor(cx, cy, dx, dy, width, height, mrg) ==
    LET fx == IF dx.n > 0 THEN RDiv(Int2Rat(width - mrg - cx), dx)
              ELSE IF dx.n < 0 THEN RDiv(Int2Rat(cx - mrg), RNeg(dx))
              ELSE Inf
        fy == IF dy.n > 0 THEN RDiv(Int2Rat(height - mrg - cy), dy)
              ELSE IF dy.n < 0 THEN RDiv(Int2Rat(cy - mrg), RNeg(dy))
              ELSE Inf
    IN  RMin(Int2Rat(1), RMin(fx, fy))

\* the end of the arrow with the factor left out: center + (x, y)
ScrollEnd_Unscaled(x, y, width, height) ==
    << RAdd(Int2Rat(width \div 2), x), RAdd(Int2Rat(height \div 2), y) >>

\* the end of the arrow: center + factor * (x, y)
ScrollEnd(x, y, width, height) ==
    LET center_x == width \div 2
        center_y == height \div 2
        factor == compute_scaling_factor(center_x, center_y, x, y, width, height, margin)
    IN  << RAdd(Int2Rat(center_x), RMul(x, factor)),
           RAdd(Int2Rat(center_y), RMul(y, factor)) >>

\* the primitives of annotate_scroll, in the order it applies them: the
\* outline pass, the main pass, the label (y / width with two decimals)
ScrollOps(x, y, screenshot) ==
    LET center == << Int2Rat(screenshot.width \div 2), Int2Rat(screenshot.height \div 2) >>
        end == ScrollEnd(x, y, screenshot.width, screenshot.height)
        arrow(fill, w) ==
            << Line(center, end, fill, w), HeadLine(end, "left", fill, w),
               HeadLine(end, "right", fill, w) >>
    IN  arrow("black", 4) \o arrow("red", 2)
        \o << ScrollText(<< screenshot.width \div 2 + 10, screenshot.height \div 2 + 10 >>,
                         PyRound(RMul(RDiv(y, Int2Rat(screenshot.width)), Int2Rat(100)))) >>

\* annotate_scroll that returns early, drawing nothing, for a zero vector
annotate_scroll_skip_zero(x, y, screenshot) ==
    [ops |-> IF x.n = 0 /\ y.n = 0 THEN << >> ELSE ScrollOps(x, y, screenshot),
     success |-> TRUE]

\* annotate_scroll(x, y, screenshot): nothing in its try block can raise
\* for an image of positive width
annotate_scroll(x, y, screenshot) ==
    [ops |-> ScrollOps(x, y, screenshot), success |-> TRUE]

(***************************************************************************)
(* The inputs: action lines, action logs, images                           *)
(***************************************************************************)
PrefixClick == << "p","y","a","u","t","o","g","u","i",".","c","l","i","c","k" >>
PrefixMove == << "p","y","a","u","t","o","g","u","i",".","m","o","v","e","T","o" >>
PrefixScroll == << "p","y","a","u","t","o","g","u","i",".","s","c","r","o","l","l" >>

\* pyautogui.press(keys=['enter'])
LinePress ==
    << "p","y","a","u","t","o","g","u","i",".","p","r","e","s","s","(",
       "k","e","y","s","=","[","'","e","n","t","e","r","'","]",")" >>
\* pyautogui.click(x=0.5,y=0.5)
LineClickMid == PrefixClick \o << "(","x","=","0",".","5",",","y","=","0",".","5",")" >>
\* pyautogui.click(x=abc,y=2)
LineClickAbc == PrefixClick \o << "(","x","=","a","b","c",",","y","=","2",")" >>
\* pyautogui.click(x=0.25, y=1)
LineClickEdge == PrefixClick \o << "(","x","=","0",".","2","5",","," ","y","=","1",")" >>
\* pyautogui.click(x=1.0,y=0.25)
LineClickFrac == PrefixClick \o << "(","x","=","1",".","0",",","y","=","0",".","2","5",")" >>
\* pyautogui.click(x=-0.5,y=0.5)
LineClickOut == PrefixClick \o << "(","x","=","-","0",".","5",",","y","=","0",".","5",")" >>
\* pyautogui.moveTo(x=.75, y=0.125)
LineMove == PrefixMove \o << "(","x","=",".","7","5",","," ","y","=","0",".","1","2","5",")" >>
\* pyautogui.moveTo(x=0.5)
LineMoveNoY == PrefixMove \o << "(","x","=","0",".","5",")" >>
\* pyautogui.scroll(page=-0.5)
LineScrollDown == PrefixScroll \o << "(","p","a","g","e","=","-","0",".","5",")" >>
\* pyautogui.scroll(page=0.125)
LineScrollUp == PrefixScroll \o << "(","p","a","g","e","=","0",".","1","2","5",")" >>
\* pyautogui.scroll(page=-1)
LineScrollInt == PrefixScroll \o << "(","p","a","g","e","=","-","1",")" >>
\* pyautogui.scroll(0.25, -1.5)
LineScrollPos == PrefixScroll \o << "(","0",".","2","5",","," ","-","1",".","5",")" >>
\* pyautogui.scroll(h=0.25)
LineScrollH == PrefixScroll \o << "(","h","=","0",".","2","5",")" >>
\* pyautogui.scroll(page=0.25, horizontal=-1.5)
LineScrollBoth ==
    PrefixScroll \o << "(","p","a","g","e","=","0",".","2","5",","," ",
                       "h","o","r","i","z","o","n","t","a","l","=","-","1",".","5",")" >>
\* pyautogui.scroll(speed=0.5)
LineScrollSpeed == PrefixScroll \o << "(","s","p","e","e","d","=","0",".","5",")" >>
\* pyautogui.scroll(0.75, page=0.5)
LineScrollMixed ==
    PrefixScroll \o << "(","0",".","7","5",","," ","p","a","g","e","=","0",".","5",")" >>

\* the lines an action log is made of; << >> is the empty line
Catalogue ==
    { << >>, LinePress, LineClickMid, LineClickAbc, LineClickEdge, LineClickFrac,
      LineClickOut,
      LineMove, LineMoveNoY, LineScrollDown, LineScrollUp, LineScrollInt,
      LineScrollPos, LineScrollH, LineScrollBoth, LineScrollSpeed, LineScrollMixed }

\* the action logs: 1 .. MaxLines catalogue lines joined by newlines
Logs == { JoinLines(ls) : ls \in UNION { [1..n -> Catalogue] : n \in 1..MaxLines } }

\* the (width, height) of the screenshots
ImageSizes == { << 8, 8 >>, << 40, 30 >>, << 30, 40 >>, << 1200, 720 >> }

Recognized(action) ==
    StartsWith(action, PrefixClick) \/ StartsWith(action, PrefixMove)
        \/ StartsWith(action, PrefixScroll)

(***************************************************************************)
(* annotate_action as a state machine                                      *)
(***************************************************************************)
\* ---------------------------------------------------------------------
\* tracking.py: TrainingTracker.  Of the columns of a record the model
\* keeps sample_id and image; annotated_image is treated by the code exactly
\* as image, and the other columns are stored as they were passed.
\* ---------------------------------------------------------------------

\* the most batches a tracker is followed for
MaxBatches == 20
\* the most records add_sample puts into one batch
MaxBuffer == 2

\* "if self.current_batch % 10 == 0"
BatchPeriod == 10

\* the PIL image of sample n
Img(n) == << "image", n >>

\* _convert_image_to_base64: the PNG bytes of the image, base64 encoded
convert_image_to_base64(img) ==
    IF img = None THEN None ELSE << "base64", "png", img[2] >>

\* _base64_to_image: the image decoded from the base64 string
base64_to_image(base64_str) ==
    IF base64_str = None THEN None ELSE << "image", base64_str[3] >>

\* wandb.Image(img)
wandb_Image(img) == << "wandb.Image", img[2] >>

\* the record add_sample builds
Record(sample_id, image) ==
    [sample_id |-> sample_id,
     image |-> IF image # None THEN convert_image_to_base64(image) ELSE None]

\* the row of a W&B table made from a row of a dataframe
WandbRow(row) ==
    [sample_id |-> row.sample_id,
     image |-> IF row.image # None THEN wandb_Image(base64_to_image(row.image))
               ELSE None]

\* one W&B row per row of df, in order
WandbRows(df) == [i \in 1..Len(df) |-> WandbRow(df[i])]

\* self.wandb_table: None, or a wandb.Table with its rows
TableNone == [made |-> FALSE, data |-> << >>]
Table(data) == [made |-> TRUE, data |-> data]

\* TrainingTracker(log_to_wandb), constructed while wandb.run is or is not set
TrainingTracker(log_to_wandb, run) ==
    [log_to_wandb |-> log_to_wandb,
     tracking_df |-> << >>,
     batch_records |-> << >>,
     current_batch |-> 0,
     wandb_table |-> IF log_to_wandb /\ run THEN Table(<< >>) ELSE TableNone]

\* add_sample(self, sample_id, ..., image, ...)
add_sample(self, sample_id, image) ==
    [self EXCEPT !.batch_records = Append(@, Record(sample_id, image))]

\* the dataframe replaced by the batch instead of extended by it
pd_concat_batch_only(df, batch_df) == batch_df

\* pd.concat([df, batch_df], ignore_index=True)
pd_concat(df, batch_df) == df \o batch_df

\* the test made on the batch counter as it was before the increment
CumulativeDue_BeforeIncrement(current_batch) ==
    (current_batch - 1) % BatchPeriod = 0

\* the batch counter calls for a cumulative table
CumulativeDue(current_batch) == current_batch % BatchPeriod = 0

\* the keys of wandb.log
KeyGeneral == << "training_samples" >>
KeyBatch(n) == << "training_samples_batch_", n >>
KeyCumulative(n) == << "training_samples_cumulative_", n >>

\* update_tracking_table(self) while wandb.run is (run) or is not set: the
\* tracker afterwards and the wandb.log calls made, each with the rows the
\* logged table had at that moment
update_tracking_table(self, run) ==
    IF self.batch_records = << >> THEN [self |-> self, logged |-> << >>]
    ELSE
    LET logging == self.log_to_wandb /\ run
        batch_df == self.batch_records
        tracking_df == pd_concat(self.tracking_df, batch_df)
        wandb_table ==
            IF logging
            THEN Table((IF self.wandb_table.made THEN self.wandb_table.data ELSE << >>)
                           \o WandbRows(batch_df))
            ELSE self.wandb_table
        batch_logs ==
            IF logging
            THEN << [key |-> KeyGeneral, table |-> wandb_table.data],
                    [key |-> KeyBatch(self.current_batch), table |-> wandb_table.data] >>
            ELSE << >>
        current_batch == self.current_batch + 1
        cumulative_logs ==
            IF CumulativeDue(current_batch) /\ logging
            THEN << [key |-> KeyCumulative(current_batch),
                     table |-> WandbRows(tracking_df)] >>
            ELSE << >>
    IN  [self |-> [self EXCEPT !.tracking_df = tracking_df,
                               !.wandb_table = wandb_table,
                               !.batch_records = << >>,
                               !.current_batch = current_batch],
         logged |-> batch_logs \o cumulative_logs]

\* ---------------------------------------------------------------------
\* reward_model_prompts.py: evaluate_low_level_action and
\* evaluate_high_level_action, which share one retry loop
\* ---------------------------------------------------------------------

\* the most invocations of the evaluators that are followed
MaxEvaluations == 2

\* "for attempt in range(2)"
Attempts == 2

Evaluators == { "evaluate_low_level_action", "evaluate_high_level_action" }

\* the parsed ActionResponseFormat objects the API answers with
Responses ==
    [reasoning : { "plausible", "implausible" }, final_rating : { 0, 1 }]

\* what makes an attempt fail after the request was sent: the API call
\* raises, or the response has no parsed object to unpack
Failures == { "APIError", "TypeError" }

\* "reasoning, final_rating = parsed": iterating a pydantic model yields its
\* (field name, value) pairs
Unpack(parsed) ==
    << << "tuple", "reasoning", parsed.reasoning >>,
       << "tuple", "final_rating", parsed.final_rating >> >>

\* return "Error during evaluation", 0
ErrorResult == << << "str", "Error during evaluation" >>, << "int", 0 >> >>

\* no value returned yet
NoResult == << >>

\* the except branch without the retry
AfterFailure_Return(attempt) == "return"

\* the except branch: continue after the first attempt, return after the second
AfterFailure(attempt) == IF attempt = 0 THEN "continue" ELSE "return"

\* ---------------------------------------------------------------------
\* the state
\* ---------------------------------------------------------------------

VARIABLES
    screenshot,   \* the caller's image: [width, height, ops]
    actions,      \* the argument of the call in progress
    lines,        \* actions.split("\n"), which the for loop runs over
    idx,          \* the line of actions.split("\n") the loop is at
    success,      \* the local: << >> while unbound, else << flag >>
    annotated_screenshot,  \* the local: the image object it refers to
    calls,        \* the renderer calls made so far, in order: the renderer, the
                  \* line it was called for, its arguments and what it did
    pc,           \* "idle", "loop", "returned" or "raised"
    result,       \* << >>, or << image object, flag >> once returned
    past,         \* the earlier calls of annotate_action on this image: for
                  \* each its renderer calls, how it ended and its result
    tracker,      \* the TrainingTracker object (self)
    wandb_run,    \* wandb.run is not None
    wandb_logged, \* the wandb.log calls made by the last tracker method call
    added,        \* the records of all add_sample calls so far, in order
    last_event,   \* the last thing that happened to the tracker
    evaluation,   \* the evaluator call in progress or just finished
    api_log       \* the requests the client has received, with their outcomes

annotateVars ==
    << screenshot, actions, lines, idx, success, annotated_screenshot, calls, pc,
       result, past >>

trackerVars == << tracker, wandb_run, wandb_logged, added, last_event >>

evaluationVars == << evaluation, api_log >>

vars == << annotateVars, trackerVars, evaluationVars >>

\* no annotate_action call was made yet
InitAnnotate ==
    /\ actions = << >>
    /\ lines = << >>
    /\ idx = 0
    /\ success = << >>
    /\ annotated_screenshot = "none"
    /\ calls = << >>
    /\ pc = "idle"
    /\ result = << >>
    /\ past = << >>

\* a tracker was constructed with logging to W&B off and nothing was added
InitTrackerOff ==
    /\ tracker = TrainingTracker(FALSE, FALSE)
    /\ wandb_run = FALSE
    /\ wandb_logged = << >>
    /\ added = << >>
    /\ last_event = "__init__"

\* no evaluator was called yet
InitEvaluation ==
    /\ evaluation = [fn |-> "none", pc |-> "idle", attempt |-> 0, api_calls |-> 0,
                     result |-> NoResult, number |-> 0]
    /\ api_log = << >>

Init ==
    /\ screenshot \in { [width |-> wh[1], height |-> wh[2], ops |-> << >>] : wh \in ImageSizes }
    /\ InitAnnotate
    /\ InitTrackerOff
    /\ InitEvaluation

\* annotate_action(actions, screenshot) is entered
Call ==
    /\ pc = "idle"
    /\ \E log \in Logs : actions' = log /\ lines' = SplitLines(log)
    /\ idx' = 1
    /\ annotated_screenshot' = "screenshot"
    /\ pc' = "loop"
    /\ UNCHANGED << screenshot, success, calls, result >>
    /\ UNCHANGED << past, trackerVars, evaluationVars >>

\* the loop with the flags of the lines combined by "and"
Rendered_And(fn, args, r) ==
    /\ screenshot' = [screenshot EXCEPT !.ops = @ \o r.ops]
    /\ annotated_screenshot' = "screenshot"
    /\ success' = IF success = << >> THEN << r.success >> ELSE << success[1] /\ r.success >>
    /\ calls' = Append(calls, [fn |-> fn, line |-> idx, args |-> args,
                               ops |-> r.ops, success |-> r.success])
    /\ idx' = idx + 1
    /\ UNCHANGED << actions, lines, pc, result >>
    /\ UNCHANGED << past, trackerVars, evaluationVars >>

\* the loop with every renderer drawing on a copy of the original image
Rendered_FreshCopy(fn, args, r) ==
    /\ screenshot' = [screenshot EXCEPT !.ops = r.ops]
    /\ annotated_screenshot' = "screenshot"
    /\ success' = << r.success >>
    /\ calls' = Append(calls, [fn |-> fn, line |-> idx, args |-> args,
                               ops |-> r.ops, success |-> r.success])
    /\ idx' = idx + 1
    /\ UNCHANGED << actions, lines, pc, result >>
    /\ UNCHANGED << past, trackerVars, evaluationVars >>

\* the loop with a renderer that leaves alone an image on which its
\* annotation was drawn before
Rendered_DrawOnce(fn, args, r) ==
    /\ screenshot' =
           IF \E k \in 1..Len(screenshot.ops) : r.ops # << >> /\ screenshot.ops[k] = r.ops[1]
           THEN screenshot
           ELSE [screenshot EXCEPT !.ops = @ \o r.ops]
    /\ annotated_screenshot' = "screenshot"
    /\ success' = << r.success >>
    /\ calls' = Append(calls, [fn |-> fn, line |-> idx, args |-> args,
                               ops |-> r.ops, success |-> r.success])
    /\ idx' = idx + 1
    /\ UNCHANGED << actions, lines, pc, result >>
    /\ UNCHANGED << past, trackerVars, evaluationVars >>

\* a renderer was called for line idx and returned r = [ops, success]
Rendered(fn, args, r) ==
    /\ screenshot' = [screenshot EXCEPT !.ops = @ \o r.ops]
    /\ annotated_screenshot' = "screenshot"
    /\ success' = << r.success >>
    /\ calls' = Append(calls, [fn |-> fn, line |-> idx, args |-> args,
                               ops |-> r.ops, success |-> r.success])
    /\ idx' = idx + 1
    /\ UNCHANGED << actions, lines, pc, result >>
    /\ UNCHANGED << past, trackerVars, evaluationVars >>

\* one iteration of the loop, first branch
LoopClick ==
    /\ pc = "loop" /\ idx <= Len(lines)
    /\ StartsWith(lines[idx], PrefixClick)
    /\ LET xy == extract_x_y(lines[idx])
       IN  Rendered("annotate_click", xy, annotate_click(xy[1], xy[2], screenshot))

\* one iteration of the loop, second branch
LoopMove ==
    /\ pc = "loop" /\ idx <= Len(lines)
    /\ ~StartsWith(lines[idx], PrefixClick)
    /\ StartsWith(lines[idx], PrefixMove)
    /\ LET xy == extract_x_y(lines[idx])
       IN  Rendered("annotate_move", xy, annotate_move(xy[1], xy[2], screenshot))

\* one iteration of the loop, third branch
LoopScroll ==
    /\ pc = "loop" /\ idx <= Len(lines)
    /\ ~StartsWith(lines[idx], PrefixClick)
    /\ ~StartsWith(lines[idx], PrefixMove)
    /\ StartsWith(lines[idx], PrefixScroll)
    /\ LET xy == convert_scroll(lines[idx], screenshot.width, screenshot.height)
       IN  Rendered("annotate_scroll", xy, annotate_scroll(xy[1], xy[2], screenshot))

\* the loop with a final else in place of the elif of the scroll branch
LoopSkip_FallThrough ==
    /\ pc = "loop" /\ idx <= Len(lines)
    /\ ~Recognized(lines[idx])
    /\ LET xy == convert_scroll(lines[idx], screenshot.width, screenshot.height)
       IN  Rendered("annotate_scroll", xy, annotate_scroll(xy[1], xy[2], screenshot))

\* one iteration of the loop, no branch taken
LoopSkip ==
    /\ pc = "loop" /\ idx <= Len(lines)
    /\ ~Recognized(lines[idx])
    /\ idx' = idx + 1
    /\ UNCHANGED << screenshot, actions, lines, success, annotated_screenshot, calls, pc, result >>
    /\ UNCHANGED << past, trackerVars, evaluationVars >>

\* the return of a copy of the image in place of the image passed in
Return_Copy ==
    /\ pc = "loop" /\ idx > Len(lines)
    /\ success # << >>
    /\ result' = << "copy", success[1] >>
    /\ pc' = "returned"
    /\ UNCHANGED << screenshot, actions, lines, idx, success, annotated_screenshot, calls >>
    /\ UNCHANGED << past, trackerVars, evaluationVars >>

\* return annotated_screenshot, success
Return ==
    /\ pc = "loop" /\ idx > Len(lines)
    /\ success # << >>
    /\ result' = << annotated_screenshot, success[1] >>
    /\ pc' = "returned"
    /\ UNCHANGED << screenshot, actions, lines, idx, success, annotated_screenshot, calls >>
    /\ UNCHANGED << past, trackerVars, evaluationVars >>

\* the return statement reads success, which no iteration has bound:
\* UnboundLocalError leaves annotate_action
RaiseUnbound ==
    /\ pc = "loop" /\ idx > Len(lines)
    /\ success = << >>
    /\ pc' = "raised"
    /\ UNCHANGED << screenshot, actions, lines, idx, success, annotated_screenshot, calls, result >>
    /\ UNCHANGED << past, trackerVars, evaluationVars >>

Next == Call \/ LoopClick \/ LoopMove \/ LoopScroll \/ LoopSkip \/ Return \/ RaiseUnbound

Spec == Init /\ [][Next]_vars

\* ---------------------------------------------------------------------
\* annotate_action called repeatedly on one image
\* ---------------------------------------------------------------------

\* the annotate_action calls on one image that are followed
MaxCalls == 2

\* the lines of the logs that annotate_action is called with repeatedly
RepeatCatalogue ==
    { LinePress, LineClickMid, LineClickAbc, LineMove, LineScrollDown, LineScrollInt }

RepeatLogs ==
    { JoinLines(ls) : ls \in UNION { [1..n -> RepeatCatalogue] : n \in 1..MaxLines } }

\* the first call, with one of these logs
CallFirst == Call /\ actions' \in RepeatLogs

\* annotate_action(actions, screenshot) is entered again with the same log
\* and the image the earlier calls drew on; its locals are new
CallAgain ==
    /\ pc \in {"returned", "raised"}
    /\ Len(past) + 1 < MaxCalls
    /\ past' = Append(past, [calls |-> calls, pc |-> pc, result |-> result])
    /\ idx' = 1
    /\ success' = << >>
    /\ annotated_screenshot' = "screenshot"
    /\ calls' = << >>
    /\ result' = << >>
    /\ pc' = "loop"
    /\ UNCHANGED << screenshot, actions, lines, trackerVars, evaluationVars >>

NextRepeat ==
    CallFirst \/ CallAgain \/ LoopClick \/ LoopMove \/ LoopScroll \/ LoopSkip
        \/ Return \/ RaiseUnbound

SpecRepeat == Init /\ [][NextRepeat]_vars

\* ---------------------------------------------------------------------
\* a TrainingTracker in use
\* ---------------------------------------------------------------------

\* an image nobody annotates
IdleScreenshot == [width |-> 8, height |-> 8, ops |-> << >>]

\* TrainingTracker(log_to_wandb=...) was constructed, before or after
\* wandb.init()
InitTracker ==
    /\ screenshot = IdleScreenshot
    /\ InitAnnotate
    /\ InitEvaluation
    /\ \E log_to_wandb \in BOOLEAN, run \in BOOLEAN :
          /\ tracker = TrainingTracker(log_to_wandb, run)
          /\ wandb_run = run
    /\ wandb_logged = << >>
    /\ added = << >>
    /\ last_event = "__init__"

\* tracker.add_sample(sample_id=n, image=...) for the n-th sample; the
\* samples with an odd n come with an image, the others without
AddSample ==
    /\ tracker.current_batch < MaxBatches
    /\ Len(tracker.batch_records) < MaxBuffer
    /\ LET n == Len(added) + 1
           image == IF n % 2 = 1 THEN Img(n) ELSE None
       IN  /\ tracker' = add_sample(tracker, n, image)
           /\ added' = Append(added, [sample_id |-> n, image |-> image])
    /\ wandb_logged' = << >>
    /\ last_event' = "add_sample"
    /\ UNCHANGED << wandb_run, annotateVars, evaluationVars >>

\* tracker.update_tracking_table()
UpdateTrackingTable ==
    /\ LET r == update_tracking_table(tracker, wandb_run)
       IN  tracker' = r.self /\ wandb_logged' = r.logged
    /\ last_event' = "update_tracking_table"
    /\ UNCHANGED << wandb_run, added, annotateVars, evaluationVars >>

\* wandb.init(): a run becomes active after the tracker was constructed
WandbInit ==
    /\ ~wandb_run
    /\ wandb_run' = TRUE
    /\ wandb_logged' = << >>
    /\ last_event' = "wandb.init"
    /\ UNCHANGED << tracker, added, annotateVars, evaluationVars >>

NextTracker == AddSample \/ UpdateTrackingTable \/ WandbInit

SpecTracker == InitTracker /\ [][NextTracker]_vars

\* ---------------------------------------------------------------------
\* the evaluators in use
\* ---------------------------------------------------------------------

InitEvaluators ==
    /\ screenshot = IdleScreenshot
    /\ InitAnnotate
    /\ InitTrackerOff
    /\ InitEvaluation

\* evaluate_low_level_action(client, ...) or evaluate_high_level_action(
\* client, ...) is entered and reaches its loop
EvaluateCall ==
    /\ evaluation.pc \in {"idle", "returned"}
    /\ evaluation.number < MaxEvaluations
    /\ \E fn \in Evaluators :
          evaluation' = [fn |-> fn, pc |-> "loop", attempt |-> 0, api_calls |-> 0,
                         result |-> NoResult, number |-> evaluation.number + 1]
    /\ UNCHANGED << api_log, annotateVars, trackerVars >>

\* one iteration of the loop: the request is answered, the parsed object is
\* unpacked and returned
AttemptReturns ==
    /\ evaluation.pc = "loop" /\ evaluation.attempt < Attempts
    /\ \E parsed \in Responses :
          /\ api_log' = Append(api_log, [fn |-> evaluation.fn, number |-> evaluation.number,
                                         outcome |-> "parsed", answer |-> Unpack(parsed)])
          /\ evaluation' = [evaluation EXCEPT !.api_calls = @ + 1,
                                              !.result = Unpack(parsed),
                                              !.pc = "returned"]
    /\ UNCHANGED << annotateVars, trackerVars >>

\* one iteration of the loop: the request or the unpacking raises and the
\* except branch is taken
AttemptRaises ==
    /\ evaluation.pc = "loop" /\ evaluation.attempt < Attempts
    /\ \E e \in Failures :
          api_log' = Append(api_log, [fn |-> evaluation.fn, number |-> evaluation.number,
                                      outcome |-> e, answer |-> NoResult])
    /\ evaluation' =
           IF AfterFailure(evaluation.attempt) = "continue"
           THEN [evaluation EXCEPT !.api_calls = @ + 1, !.attempt = @ + 1]
           ELSE [evaluation EXCEPT !.api_calls = @ + 1,
                                   !.result = ErrorResult,
                                   !.pc = "returned"]
    /\ UNCHANGED << annotateVars, trackerVars >>

NextEvaluators == EvaluateCall \/ AttemptReturns \/ AttemptRaises

SpecEvaluators == InitEvaluators /\ [][NextEvaluators]_vars

(***************************************************************************)
(* Properties of annotate_action                                           *)
(***************************************************************************)
\* the call has ended, by a return or by an exception
Finished == pc \in {"returned", "raised"}

RECURSIVE LastRecognizedIn(_, _)
\* the largest i <= n with ls[i] recognized, 0 if there is none
LastRecognizedIn(ls, n) ==
    IF n = 0 THEN 0
    ELSE IF Recognized(ls[n]) THEN n
    ELSE LastRecognizedIn(ls, n - 1)

LastRecognized == LastRecognizedIn(lines, Len(lines))

\* the click and moveTo lines of the catalogue whose arguments are not the
\* two numbers x=, y=
MalformedLines == { LineClickAbc, LineMoveNoY }

\* the scroll lines of the catalogue with no decimal number in them
ScrollMissLines == { LineScrollInt }

\* C1: annotate_action never raises an exception to the caller, whatever
\* the action log (empty, unrecognized lines only, malformed arguments).
C1_NeverRaises == pc # "raised"

\* C2: when the log has a recognized line, annotate_action returns, and the
\* flag it returns is the flag of the renderer call made for the last
\* recognized line, whatever earlier calls yielded and whatever follows.
C2_LastRecognizedWins ==
    (Finished /\ LastRecognized > 0) =>
        /\ pc = "returned"
        /\ \E j \in 1..Len(calls) :
              /\ calls[j].line = LastRecognized
              /\ result[2] = calls[j].success

\* two recognized lines with different flags were processed and the call
\* returned
Witness_C2 ==
    /\ pc = "returned"
    /\ Len(calls) = 2
    /\ calls[1].success # calls[2].success

\* C3: the renderer call of a malformed click or moveTo line yields
\* success = False, and a log whose last recognized line is malformed makes
\* annotate_action return False without raising.
C3_MalformedYieldsFalse ==
    /\ \A j \in 1..Len(calls) :
          lines[calls[j].line] \in MalformedLines => ~calls[j].success
    /\ (Finished /\ LastRecognized > 0 /\ lines[LastRecognized] \in MalformedLines) =>
          (pc = "returned" /\ result[2] = FALSE)

\* the log pyautogui.click(x=abc,y=2) was annotated and the call returned
Witness_C3 ==
    /\ pc = "returned"
    /\ lines = << LineClickAbc >>

\* C4: the iteration for a line with none of the three prefixes makes no
\* renderer call and leaves the image as it was.
C4_UnrecognizedDrawsNothing ==
    [][ (pc = "loop" /\ idx <= Len(lines) /\ ~Recognized(lines[idx]) /\ idx' = idx + 1)
            => (screenshot' = screenshot /\ calls' = calls) ]_vars

\* an unrecognized second line was processed on an image that the first
\* line had drawn on
Witness_C4 ==
    /\ pc = "loop"
    /\ idx = 3
    /\ ~Recognized(lines[2])
    /\ screenshot.ops # << >>

\* the calls made for a line of the given set
CallsFor(lineset) == { j \in 1..Len(calls) : lines[calls[j].line] \in lineset }

\* C5 as stated: a recognized line whose arguments miss the parser's pattern
\* yields absent or zero values, draws nothing and raises nothing.
C5_ParseMissDrawsNothing ==
    /\ \A j \in CallsFor(MalformedLines \cup ScrollMissLines) : calls[j].ops = << >>
    /\ \A j \in CallsFor(MalformedLines) : calls[j].args = << None, None >>
    /\ \A j \in CallsFor(ScrollMissLines) : calls[j].args = << Int2Rat(0), Int2Rat(0) >>
    /\ (\E i \in 1..Len(lines) : lines[i] \in MalformedLines \cup ScrollMissLines)
          => pc # "raised"

\* C5, amended: a parse miss raises nothing and yields (None, None) for a
\* click or moveTo line, for which nothing is drawn, and (0, 0) for a scroll
\* line, for which annotate_scroll still draws: an arrow whose shaft ends at
\* the image center where it starts, and the label, with success = True.
C5_ParseMissNonFatal ==
    /\ \A j \in CallsFor(MalformedLines) :
          calls[j].args = << None, None >> /\ calls[j].ops = << >>
    /\ \A j \in CallsFor(ScrollMissLines) :
          /\ calls[j].args = << Int2Rat(0), Int2Rat(0) >>
          /\ calls[j].success
          /\ Len(calls[j].ops) = 7
          /\ calls[j].ops[1].seg[1] = calls[j].ops[1].seg[2]
          /\ calls[j].ops[7].op = "text"
    /\ (\E i \in 1..Len(lines) : lines[i] \in MalformedLines \cup ScrollMissLines)
          => pc # "raised"

\* pyautogui.scroll(page=-1) was rendered
Witness_C5 == \E j \in CallsFor(ScrollMissLines) : calls[j].ops # << >>

RECURSIVE RecognizedUpTo(_, _)
\* the indices i <= n of the recognized lines, in increasing order
RecognizedUpTo(ls, n) ==
    IF n = 0 THEN << >>
    ELSE IF Recognized(ls[n]) THEN Append(RecognizedUpTo(ls, n - 1), n)
    ELSE RecognizedUpTo(ls, n - 1)

\* the renderer of a recognized line
RendererOf(line) ==
    IF StartsWith(line, PrefixClick) THEN "annotate_click"
    ELSE IF StartsWith(line, PrefixMove) THEN "annotate_move"
    ELSE "annotate_scroll"

RECURSIVE AllOps(_)
\* what the calls drew, one after the other
AllOps(cs) == IF cs = << >> THEN << >> ELSE cs[1].ops \o AllOps(Tail(cs))

\* C6: the log is cut at its newlines and the lines are processed in log
\* order, with exactly one renderer call per recognized line, each drawing
\* on the one image on top of what the earlier calls drew; the call ends
\* only when every line was processed, a failed line included.
C6_OneCallPerLineInOrder ==
    pc # "idle" =>
        LET rec == RecognizedUpTo(lines, idx - 1)
        IN  /\ JoinLines(lines) = actions
            /\ \A i \in 1..Len(lines) : "\n" \notin { lines[i][k] : k \in 1..Len(lines[i]) }
            /\ Len(calls) = Len(rec)
            /\ \A j \in 1..Len(calls) :
                  /\ calls[j].line = rec[j]
                  /\ calls[j].fn = RendererOf(lines[rec[j]])
            /\ screenshot.ops = AllOps(calls)
            /\ Finished => idx = Len(lines) + 1

\* a scroll line and then a click line were both drawn on the image
Witness_C6 ==
    /\ pc = "returned"
    /\ Len(calls) = 2
    /\ calls[1].fn = "annotate_scroll" /\ calls[1].ops # << >>
    /\ calls[2].fn = "annotate_click" /\ calls[2].ops # << >>

\* the calls of annotate_scroll
ScrollCalls == { j \in 1..Len(calls) : calls[j].fn = "annotate_scroll" }

\* the factor annotate_scroll computes for call j
FactorOf(j) ==
    compute_scaling_factor(screenshot.width \div 2, screenshot.height \div 2,
                           calls[j].args[1], calls[j].args[2],
                           screenshot.width, screenshot.height, margin)

\* the end of the shaft that call j drew
EndOf(j) == calls[j].ops[1].seg[2]

\* the end of the shaft is center + f * (dx, dy) and keeps the margin to the
\* edges that (dx, dy) points toward
EndWithinMargin(j) ==
    LET dx == calls[j].args[1]
        dy == calls[j].args[2]
        f == FactorOf(j)
        end == EndOf(j)
    IN  /\ end[1] = RAdd(Int2Rat(screenshot.width \div 2), RMul(f, dx))
        /\ end[2] = RAdd(Int2Rat(screenshot.height \div 2), RMul(f, dy))
        /\ dx.n > 0 => RLeq(end[1], Int2Rat(screenshot.width - 15))
        /\ dx.n < 0 => RLeq(Int2Rat(15), end[1])
        /\ dy.n > 0 => RLeq(end[2], Int2Rat(screenshot.height - 15))
        /\ dy.n < 0 => RLeq(Int2Rat(15), end[2])

\* C7 as stated: for every image size and scroll vector, 0 < f <= 1 and the
\* end of the arrow keeps 15 px to every edge the vector points toward.
C7_FactorInUnitInterval ==
    \A j \in ScrollCalls :
        /\ RLess(Int2Rat(0), FactorOf(j))
        /\ RLeq(FactorOf(j), Int2Rat(1))
        /\ EndWithinMargin(j)

\* C7, amended: f <= 1 and the end of the arrow keeps 15 px to every edge
\* the vector points toward, for every image size; 0 < f when the image is
\* at least 32 px wide and 32 px high.
C7_FactorBounded ==
    \A j \in ScrollCalls :
        /\ RLeq(FactorOf(j), Int2Rat(1))
        /\ (screenshot.width >= 32 /\ screenshot.height >= 32)
              => RLess(Int2Rat(0), FactorOf(j))
        /\ EndWithinMargin(j)

\* a diagonal scroll vector was shrunk on an image of at least 32 x 32
Witness_C7 ==
    \E j \in ScrollCalls :
        /\ screenshot.width >= 32 /\ screenshot.height >= 32
        /\ calls[j].args[1].n # 0 /\ calls[j].args[2].n # 0
        /\ RLess(FactorOf(j), Int2Rat(1))

RAbs(a) == [n |-> Abs(a.n), d |-> a.d]

\* the calls of annotate_scroll with dx = 0
VerticalCalls == { j \in ScrollCalls : calls[j].args[1].n = 0 }

\* min(1, bound) * |dy| with the bound of the claim; 0 for dy = 0
VerticalLength(dy, height) ==
    LET cy == height \div 2
        bound == IF dy.n > 0 THEN RDiv(Int2Rat(height - 15 - cy), dy)
                 ELSE RDiv(Int2Rat(cy - 15), RAbs(dy))
    IN  IF dy.n = 0 THEN Int2Rat(0)
        ELSE RMul(RMin(Int2Rat(1), bound), RAbs(dy))

\* the end of the shaft of call j is at the stated distance from the center
\* and, where the bound applies (dy # 0), at least 15 px from the top and
\* bottom edges
VerticalEnd(j) ==
    LET cy == Int2Rat(screenshot.height \div 2)
    IN  /\ RAbs(RAdd(EndOf(j)[2], RNeg(cy))) = VerticalLength(calls[j].args[2], screenshot.height)
        /\ calls[j].args[2].n # 0 =>
              /\ RLeq(Int2Rat(15), EndOf(j)[2])
              /\ RLeq(EndOf(j)[2], Int2Rat(screenshot.height - 15))

ClickTable ==
    { << LineClickMid, Rat(1, 2), Rat(1, 2) >>,
      << LineClickEdge, Rat(1, 4), Int2Rat(1) >>,
      << LineClickFrac, Int2Rat(1), Rat(1, 4) >> }

\* the center of the marker that call j drew: the middle of its first ring
CenterOf(j) ==
    LET box == calls[j].ops[1].box
    IN  << (box[1] + box[3]) \div 2, (box[2] + box[4]) \div 2 >>

\* c is v truncated (v >= 0) and is within 1 of v rounded
TruncatedWithinOne(c, v) ==
    /\ RLeq(Int2Rat(c), v)
    /\ RLess(v, Int2Rat(c + 1))
    /\ Abs(c - PyRound(v)) <= 1

\* C9: for a well-formed click line with X, Y in [0, 1] the marker is drawn
\* at (trunc(X * W), trunc(Y * H)), which is within 1 px of
\* (round(X * W), round(Y * H)) on each axis.
C9_ClickCenterTruncated ==
    \A j \in 1..Len(calls) : \A t \in ClickTable :
        lines[calls[j].line] = t[1] =>
            /\ calls[j].success
            /\ TruncatedWithinOne(CenterOf(j)[1], RMul(t[2], Int2Rat(screenshot.width)))
            /\ TruncatedWithinOne(CenterOf(j)[2], RMul(t[3], Int2Rat(screenshot.height)))

\* a click was drawn whose truncated y differs from the rounded one
Witness_C9 ==
    \E j \in 1..Len(calls) :
        /\ lines[calls[j].line] = LineClickFrac
        /\ calls[j].success
        /\ CenterOf(j)[2] # PyRound(RMul(Rat(1, 4), Int2Rat(screenshot.height)))

\* the calls of annotate_click and annotate_move that drew a marker
MarkerCalls ==
    { j \in 1..Len(calls) :
        calls[j].fn \in {"annotate_click", "annotate_move"} /\ calls[j].success }

\* the four candidate anchors of the label of a marker centered at c
Candidates(c) ==
    << << c[1] + 10, c[2] + 10 >>, << c[1] - 10, c[2] - 10 >>,
       << c[1] + 10, c[2] - 10 >>, << c[1] - 10, c[2] + 10 >> >>

InsideImage(a) ==
    0 <= a[1] /\ a[1] < screenshot.width /\ 0 <= a[2] /\ a[2] < screenshot.height

\* C10: the label of a click or move marker is drawn at the first of the
\* four candidate anchors that is inside the image, and no label is drawn
\* when none is.
C10_LabelAtFirstInsideAnchor ==
    \A j \in MarkerCalls :
        LET cand == Candidates(CenterOf(j))
            inside == { k \in 1..4 : InsideImage(cand[k]) }
        IN  IF inside = { }
            THEN Len(calls[j].ops) = 4
            ELSE /\ Len(calls[j].ops) = 5
                 /\ calls[j].ops[5].op = "text"
                 /\ calls[j].ops[5].at = cand[CHOOSE k \in inside : \A m \in inside : k <= m]

\* the scroll lines with a part that convert_scroll cannot read or that is
\* missing, each with the page and horizontal values it is read as
ScrollZeroTable ==
    { << LineScrollDown, Rat(-1, 2), Int2Rat(0) >>,    \* no horizontal
      << LineScrollH, Int2Rat(0), Rat(1, 4) >>,        \* no page
      << LineScrollSpeed, Int2Rat(0), Int2Rat(0) >>,   \* unrecognized name
      << LineScrollInt, Int2Rat(0), Int2Rat(0) >>,     \* integer literal
      << LineScrollMixed, Rat(1, 2), Int2Rat(0) >>,    \* a named pair: no fallback
      << LineScrollPos, Rat(1, 4), Rat(-3, 2) >> }     \* no named pair: fallback

\* the offsets (h * W, -p * H)
Offsets(p, h) ==
    << RMul(h, Int2Rat(screenshot.width)), RNeg(RMul(p, Int2Rat(screenshot.height))) >>

\* C11: convert_scroll never raises and reads as 0 what is missing or what
\* it cannot read: a missing page, a missing horizontal/h, an unrecognized
\* argument name, an integer literal; it falls back to the positional
\* numbers only when the line has no named key=value pair.
C11_ScrollDefaultsToZero ==
    /\ \A j \in ScrollCalls : \A t \in ScrollZeroTable :
          lines[calls[j].line] = t[1] => calls[j].args = Offsets(t[2], t[3])
    /\ (\E i \in 1..Len(lines) : StartsWith(lines[i], PrefixScroll)) => pc # "raised"

\* an unrecognized argument name with a decimal value was read as (0, 0)
Witness_C11 ==
    \E j \in ScrollCalls :
        /\ lines[calls[j].line] = LineScrollSpeed
        /\ calls[j].args = << Int2Rat(0), Int2Rat(0) >>

\* the well-formed scroll lines, each with its page p and horizontal h
ScrollTable ==
    { << LineScrollDown, Rat(-1, 2), Int2Rat(0) >>,
      << LineScrollUp, Rat(1, 8), Int2Rat(0) >>,
      << LineScrollBoth, Rat(1, 4), Rat(-3, 2) >>,
      << LineScrollPos, Rat(1, 4), Rat(-3, 2) >> }

\* C12: convert_scroll returns (h * W, -p * H); pyautogui.scroll(page=-0.5)
\* on a 1200 x 720 image gives (0, 360) and the arrow drawn for it ends
\* below the center (at a larger y).
C12_ScrollSignInverted ==
    \A j \in ScrollCalls :
        /\ \A t \in ScrollTable :
              lines[calls[j].line] = t[1] =>
                  /\ calls[j].args[1] = RMul(t[3], Int2Rat(screenshot.width))
                  /\ calls[j].args[2] = RMul(RNeg(t[2]), Int2Rat(screenshot.height))
        /\ (lines[calls[j].line] = LineScrollDown
                /\ screenshot.width = 1200 /\ screenshot.height = 720) =>
              /\ calls[j].args = << Int2Rat(0), Int2Rat(360) >>
              /\ EndOf(j)[1] = Int2Rat(600)
              /\ RLess(Int2Rat(360), EndOf(j)[2])

\* pyautogui.scroll(page=-0.5) was rendered on a 1200 x 720 image
Witness_C12 ==
    \E j \in ScrollCalls :
        /\ lines[calls[j].line] = LineScrollDown
        /\ screenshot.width = 1200 /\ screenshot.height = 720
        /\ calls[j].ops # << >>

\* the radius of a drawn ellipse: half the width of its bounding box
RadiusOf(ellipse) == (ellipse.box[3] - ellipse.box[1]) \div 2

\* r is m // 15: the integer with 15 * r <= m < 15 * (r + 1)
FloorFifteenth(r, m) == 15 * r <= m /\ m < 15 * (r + 1)

\* m is the smaller of a and b
SmallerOf(m, a, b) == m \in {a, b} /\ m <= a /\ m <= b

\* C14: the main ring of a click/move marker has radius min(W, H) // 15 and
\* the halo has that radius plus 2; pyautogui.click(x=0.5,y=0.5) on a
\* 1200 x 720 image has center (600, 360) and radius 48.
C14_MarkerRadius ==
    \A j \in MarkerCalls :
        /\ \E m \in {screenshot.width, screenshot.height} :
              /\ SmallerOf(m, screenshot.width, screenshot.height)
              /\ FloorFifteenth(RadiusOf(calls[j].ops[2]), m)
        /\ RadiusOf(calls[j].ops[1]) = RadiusOf(calls[j].ops[2]) + 2
        /\ (lines[calls[j].line] = LineClickMid
                /\ screenshot.width = 1200 /\ screenshot.height = 720) =>
              /\ CenterOf(j) = << 600, 360 >>
              /\ RadiusOf(calls[j].ops[2]) = 48

\* a marker was drawn on an image that is taller than wide
Witness_C14 ==
    \E j \in MarkerCalls :
        /\ screenshot.width < screenshot.height
        /\ RadiusOf(calls[j].ops[2]) = 2
        /\ RadiusOf(calls[j].ops[1]) = 4

\* C13: annotate_action leaves the width and the height of the image as
\* they were, whatever the log and whether or not its lines were drawn, and
\* the image it returns is the object the caller passed in.
C13_SizePreserved ==
    [][/\ screenshot'.width = screenshot.width
       /\ screenshot'.height = screenshot.height
       /\ (pc' = "returned" => result'[1] = "screenshot")]_vars

\* a call returned after one line was drawn and a later one failed
Witness_C13 ==
    /\ pc = "returned"
    /\ result[1] = "screenshot"
    /\ screenshot.ops # << >>
    /\ \E j \in 1..Len(calls) : ~calls[j].success

\* the well-formed recognized lines of the repeated logs
WellFormedLines == { LineClickMid, LineMove, LineScrollDown }

\* what the image carried after the first call
FirstOps == AllOps(past[1].calls)

\* C15: a second annotate_action call with the same log on the annotated
\* image makes the same renderer calls with the same outcome as the first
\* (nothing but the image is kept between calls) and applies their draw
\* operations again on top of the earlier ones: with a well-formed
\* recognized line in the log the image then carries strictly more draw
\* operations than after one call.
C15_NotIdempotent ==
    (past # << >> /\ Finished) =>
        LET p == past[Len(past)]
        IN  /\ calls = p.calls /\ pc = p.pc /\ result = p.result
            /\ SubSeq(screenshot.ops, 1, Len(FirstOps)) = FirstOps
            /\ Len(screenshot.ops) = (Len(past) + 1) * Len(AllOps(calls))
            /\ (\E i \in 1..Len(lines) : lines[i] \in WellFormedLines) =>
                  Len(screenshot.ops) > Len(FirstOps)

\* a second call returned after drawing the marker of a click again
Witness_C15 ==
    /\ Len(past) = 1 /\ pc = "returned"
    /\ lines = << LineClickMid >>
    /\ Len(FirstOps) = 5
    /\ Len(screenshot.ops) = 10

\* the wandb.log calls among logged that carry a cumulative table
CumulativeLogs(logged) ==
    { k \in 1..Len(logged) : logged[k].key[1] = "training_samples_cumulative_" }

\* C16: update_tracking_table called with a non-empty buffer increments
\* current_batch by exactly 1 and logs one cumulative table, with one row
\* per row of tracking_df, exactly when the incremented counter is a
\* multiple of 10 and logging to W&B is on with an active run; called with
\* an empty buffer it leaves current_batch as it was and logs nothing.
C16_CumulativeEveryTenBatches ==
    [][last_event' = "update_tracking_table" =>
          IF tracker.batch_records # << >>
          THEN /\ tracker'.current_batch = tracker.current_batch + 1
               /\ LET due == /\ (tracker.current_batch + 1) % 10 = 0
                             /\ tracker.log_to_wandb
                             /\ wandb_run
                      cum == CumulativeLogs(wandb_logged')
                  IN  /\ due <=> cum # {}
                      /\ Cardinality(cum) <= 1
                      /\ \A k \in cum :
                            /\ wandb_logged'[k].key[2] = tracker.current_batch + 1
                            /\ Len(wandb_logged'[k].table) = Len(tracker'.tracking_df)
                            /\ \A i \in 1..Len(tracker'.tracking_df) :
                                  wandb_logged'[k].table[i].sample_id
                                      = tracker'.tracking_df[i].sample_id
          ELSE /\ tracker'.current_batch = tracker.current_batch
               /\ wandb_logged' = << >>]_vars

\* the tenth batch, of more than ten records, was just logged cumulatively
Witness_C16 ==
    /\ last_event = "update_tracking_table"
    /\ tracker.current_batch = 10
    /\ Len(tracker.tracking_df) > 10
    /\ \E k \in CumulativeLogs(wandb_logged) :
          Len(wandb_logged[k].table) = Len(tracker.tracking_df)

\* C17: the rows of tracking_df followed by the entries of batch_records
\* are the added samples in the order they were added, none lost and none
\* twice, and right after an update_tracking_table call batch_records is
\* empty.
C17_NoRecordLostOrDuplicated ==
    LET held == tracker.tracking_df \o tracker.batch_records
    IN  /\ Len(held) = Len(added)
        /\ \A i \in 1..Len(held) :
              /\ held[i].sample_id = added[i].sample_id
              /\ base64_to_image(held[i].image) = added[i].image
        /\ last_event = "update_tracking_table" => tracker.batch_records = << >>

\* two batches were moved into tracking_df and a further sample is buffered
Witness_C17 ==
    /\ tracker.current_batch = 2
    /\ Len(tracker.tracking_df) = 3
    /\ Len(tracker.batch_records) = 1
    /\ Len(added) = 4

\* the requests the evaluator call in progress (or just finished) has made
RequestsOfCall == { k \in 1..Len(api_log) : api_log[k].number = evaluation.number }

\* C18: an evaluator call makes at most 2 requests; it returns what the
\* first answered request gave, having made no request after it; it makes a
\* second request only after the first one failed; and after two failed
\* requests it returns ("Error during evaluation", 0) and raises nothing.
C18_AtMostTwoAttempts ==
    /\ evaluation.api_calls = Cardinality(RequestsOfCall)
    /\ Cardinality(RequestsOfCall) <= 2
    /\ \A k \in RequestsOfCall :
          k < Len(api_log) => api_log[k].outcome \in { "APIError", "TypeError" }
    /\ evaluation.pc = "loop" =>
          /\ evaluation.attempt = Cardinality(RequestsOfCall)
          /\ Cardinality(RequestsOfCall) <= 1
          /\ \A k \in RequestsOfCall : api_log[k].outcome # "parsed"
    /\ evaluation.pc = "returned" =>
          /\ Len(api_log) \in RequestsOfCall
          /\ IF api_log[Len(api_log)].outcome = "parsed"
             THEN /\ evaluation.result = api_log[Len(api_log)].answer
                  /\ evaluation.result # ErrorResult
             ELSE /\ Cardinality(RequestsOfCall) = 2
                  /\ evaluation.result = ErrorResult

\* a call returned the error pair after its two requests failed, the second
\* call returned the answer to its retry
Witness_C18 ==
    /\ Len(api_log) = 4
    /\ api_log[2].outcome = "TypeError"
    /\ api_log[3].outcome = "APIError"
    /\ api_log[4].outcome = "parsed"
    /\ evaluation.pc = "returned"
    /\ evaluation.api_calls = 2
    /\ evaluation.result = api_log[4].answer

====
